---------------------------- MODULE Spec2Model ----------------------------
(***************************************************************************)
(* Oil SaaS API (src/main.py, src/schemas.py): the request handlers of the  *)
(* HTTP layer over a document store.  Every handler is modelled step by     *)
(* step at the granularity of its store calls: a handler that makes one     *)
(* store call is one action, signup (read, then insert) and get_pricing     *)
(* (count, up to three inserts, read) are several, so that requests         *)
(* interleave between store calls exactly where the code lets them.         *)
(*                                                                          *)
(* The store adapter (module database: db, create_document, get_documents)  *)
(* is not among the sources; it is modelled from section 4.1 of the         *)
(* specification.                                                           *)
(***************************************************************************)
EXTENDS Integers, Sequences, FiniteSets, TLC

(***************************************************************************)
(* Bounds of the model.                                                     *)
(***************************************************************************)
NumProcs == 2
MaxUsers == 2
MaxBlogs == 3
MaxContacts == 1
MaxLimit == 2
MaxLoad == 3

Procs == 1..NumProcs

(***************************************************************************)
(* Strings.  A string is a TLA+ string; its i-th character is the one       *)
(* character string SubSeq(s, i, i).                                        *)
(***************************************************************************)
Chars == "0123456789abcdefghijklmnopqrstuvwxyz@.- ABCDEFGHIJKLMNOPQRSTUVWXYZ"

\* The code of each character: its place in Chars.
CodeOf ==
    [c \in {SubSeq(Chars, i, i) : i \in 1..Len(Chars)} |->
        CHOOSE i \in 1..Len(Chars) : SubSeq(Chars, i, i) = c]

Code(c) == CodeOf[c]

HexChar(n) == SubSeq(Chars, n + 1, n + 1)

Min(a, b) == IF a <= b THEN a ELSE b

\* Python's s[:n] for n >= 0.
Prefix(s, n) == SubSeq(s, 1, Min(n, Len(s)))

\* Optional[...] = None
None == "<None>"

(***************************************************************************)
(* hash_password: sha256(pw.encode()).hexdigest().  SHA-256 is modelled by  *)
(* a small deterministic digest of the same shape: any string in, a string  *)
(* of DigestLen hexadecimal digits out, many-to-one.                        *)
(***************************************************************************)
DigestLen == 64
TokenLen == 32

RECURSIVE Absorb(_, _)
Absorb(h, s) ==
    IF s = "" THEN h
    ELSE Absorb((h * 31 + Code(SubSeq(s, 1, 1))) % 65536, SubSeq(s, 2, Len(s)))

RECURSIVE HexDigits(_, _, _)
HexDigits(h, i, n) ==
    IF i > n THEN ""
    ELSE HexChar((h * i + (h \div 16) + (i * i) \div 7) % 16)
         \o HexDigits(h, i + 1, n)

\* The four words of hexadecimal digits a digest is made of, by byte.
HexWord == [x \in 0..255 |-> HexDigits(x * 257 + 1, 1, DigestLen \div 4)]

sha256_hexdigest(s) ==
    LET h == Absorb(17, s)
    IN  HexWord[h % 256] \o HexWord[h \div 256]
            \o HexWord[(h \div 16 + 7) % 256] \o HexWord[(h * 3 + 1) % 256]

hash_password(pw) == sha256_hexdigest(pw)


(***************************************************************************)
(* State.  db and environ are fixed when the process starts; the four       *)
(* collections are the store's; pc, op, payload, count, pl and response     *)
(* are each request worker's position, request and locals.                  *)
(***************************************************************************)
VARIABLES
    db,              \* TRUE iff the store handle is present (database.db)
    environ,         \* the environment variables that are set
    userauth,        \* collection "userauth", in insertion order
    blogpost,        \* collection "blogpost"
    contactmessage,  \* collection "contactmessage"
    pricingplan,     \* collection "pricingplan"
    pc,              \* pc[p]: where worker p stands in its handler
    op,              \* op[p]: the operation worker p is serving
    payload,         \* payload[p]: the validated request of worker p
    count,           \* count[p]: get_pricing's local count
    pl,              \* pl[p]: how many of get_pricing's plans p has inserted
    response         \* response[p]: what worker p answered

store == <<userauth, blogpost, contactmessage, pricingplan>>
config == <<db, environ>>
workers == <<pc, op, payload, count, pl, response>>
vars == <<db, environ, userauth, blogpost, contactmessage, pricingplan,
          pc, op, payload, count, pl, response>>

(***************************************************************************)
(* Document store adapter (specification 4.1).                              *)
(***************************************************************************)
IdLen == 4

RECURSIVE Hex(_, _)
Hex(n, width) ==
    IF width = 0 THEN "" ELSE Hex(n \div 16, width - 1) \o HexChar(n % 16)

\* str(_id): the store's identifier as the string handed to clients.
IdStr(oid) == Hex(oid, IdLen)

\* The identifier the store generates for the next record of a collection.
NewObjectId(coll) == Len(coll) + 1

\* A record matches a field-equality filter.
Matches(doc, filter) == \A k \in DOMAIN filter : doc[k] = filter[k]

\* The empty filter {}.
NoFilter == <<>>

\* create_document(collection, data): the collection after the insert ...
create_document(coll, data) ==
    Append(coll, [_id |-> NewObjectId(coll)] @@ data)

\* ... and the identifier it returns, as a string.
inserted_id(coll) == IdStr(NewObjectId(coll))

\* get_documents(collection, filter): the matching records, in store order;
\* the empty sequence when the store handle is absent.
get_documents(coll, filter) ==
    IF db THEN SelectSeq(coll, LAMBDA d : Matches(d, filter)) ELSE <<>>

\* get_documents(collection, filter, limit): truncated to limit.
get_documents_limit(coll, filter, limit) ==
    LET docs == get_documents(coll, filter)
    IN  SubSeq(docs, 1, Min(limit, Len(docs)))

\* p["id"] = str(p.pop("_id", "")): the record with _id renamed to id.
RenameId(d) ==
    [k \in (DOMAIN d \ {"_id"}) \cup {"id"} |->
        IF k = "id" THEN IdStr(d._id) ELSE d[k]]

Serialize(docs) == [i \in 1..Len(docs) |-> RenameId(docs[i])]


(***************************************************************************)
(* Requests.  Bodies arrive validated (pydantic), drawn from small sets.    *)
(***************************************************************************)
SignUpRequests ==
    { [name |-> "Ann", email |-> "a@x.io", password |-> "pw1", company |-> None],
      [name |-> "Bob", email |-> "a@x.io", password |-> "pw2", company |-> ""],
      [name |-> "Cy",  email |-> "b@x.io", password |-> "pw2", company |-> "Acme"] }

SignInRequests ==
    [email : {"a@x.io", "b@x.io"}, password : {"pw1", "pw2"}]

BlogCreates ==
    { [title |-> "Oil Price", excerpt |-> None, content |-> "c", author |-> "Ann",
       tags |-> <<"oil">>, cover_image |-> None] }

ContactRequests ==
    { [name |-> "Ann", email |-> "a@x.io", company |-> None, subject |-> "Hi",
       message |-> "m"] }

\* The limit query parameter of GET /api/blog: any integer.
Limits == (-1)..MaxLimit

\* datetime.utcnow()
Times == {"2026-01-01T00:00:00"}

\* What str(e) of a failed collection listing may be.
ListingErrors ==
    { "timeout",
      "ServerSelectionTimeoutError localhost 27017 connection refused" }

NoPayload == <<>>
NoResponse == [status |-> 0, body |-> None]

\* A record another writer left in the store before the service started.
Draft ==
    [_id |-> 1, title |-> "Draft", slug |-> "draft", excerpt |-> None,
     content |-> "wip", author |-> "Ann", tags |-> <<>>, published |-> FALSE,
     published_at |-> None, cover_image |-> None]

(***************************************************************************)
(* Schemas (src/schemas.py): the records the handlers build.                *)
(***************************************************************************)
Userauth(name, email, password_hash, company) ==
    [name |-> name, email |-> email, password_hash |-> password_hash,
     company |-> company, role |-> "user"]

Blogpost(post, slug, now) ==
    [title |-> post.title, slug |-> slug, excerpt |-> post.excerpt,
     content |-> post.content, author |-> post.author, tags |-> post.tags,
     published |-> TRUE, published_at |-> now, cover_image |-> post.cover_image]

Contactmessage(req) ==
    [name |-> req.name, email |-> req.email, company |-> req.company,
     message |-> req.message, subject |-> req.subject, status |-> "new"]

Pricingplan(name, monthly, yearly, features, most_popular) ==
    [name |-> name, price_monthly |-> monthly, price_yearly |-> yearly,
     features |-> features, most_popular |-> most_popular]

\* get_pricing's plans, in the order of its loop.
plans ==
    << Pricingplan("Starter", 49, 490,
         <<"Up to 1,000 barrels tracked", "Basic analytics", "Email support">>,
         FALSE),
       Pricingplan("Pro", 199, 1990,
         <<"Up to 25,000 barrels tracked", "Advanced analytics", "API access",
           "Priority support">>,
         TRUE),
       Pricingplan("Enterprise", 0, 0,
         <<"Unlimited scale", "Custom SLAs", "Dedicated onboarding", "SAML SSO">>,
         FALSE) >>

(***************************************************************************)
(* Responses.                                                               *)
(***************************************************************************)
Ok(body) == [status |-> 200, body |-> body]

\* raise HTTPException(status_code, detail)
HTTPException(status_code, detail) == [status |-> status_code, body |-> detail]

\* An exception the handler does not catch: create_document's store error.
ServerError == [status |-> 500, body |-> "Internal Server Error"]

AuthResponse(user_id, name, email, company, token) ==
    [user_id |-> user_id, name |-> name, email |-> email, company |-> company,
     token |-> token]

\* The handler of worker p ends with response r.
Finish(p, r) ==
    /\ pc' = [pc EXCEPT ![p] = "done"]
    /\ response' = [response EXCEPT ![p] = r]

\* Worker p takes request req of operation o.
Take(p, o, req) ==
    /\ pc[p] = "idle"
    /\ op' = [op EXCEPT ![p] = o]
    /\ payload' = [payload EXCEPT ![p] = req]

Init ==
    /\ db \in BOOLEAN
    /\ environ \in SUBSET {"DATABASE_URL", "DATABASE_NAME"}
    /\ (db => environ = {"DATABASE_URL", "DATABASE_NAME"})
    /\ userauth = <<>>
    /\ blogpost \in {<<>>, <<Draft>>}
    /\ (~db => blogpost = <<>>)
    /\ contactmessage = <<>>
    /\ pricingplan = <<>>
    /\ pc = [p \in Procs |-> "idle"]
    /\ op = [p \in Procs |-> "none"]
    /\ payload = [p \in Procs |-> NoPayload]
    /\ count = [p \in Procs |-> 0]
    /\ pl = [p \in Procs |-> 0]
    /\ response = [p \in Procs |-> NoResponse]


(***************************************************************************)
(* POST /api/auth/signup                                                    *)
(***************************************************************************)
\* The record signup builds from its payload.
SignupUser(req) ==
    Userauth(req.name, req.email, hash_password(req.password),
             IF req.company = "" THEN None ELSE req.company)

\* signup's answer once create_document has returned new_id.
SignupResponse(user, new_id) ==
    Ok(AuthResponse(new_id, user.name, user.email, user.company,
                    Prefix(hash_password(user.email \o new_id), TokenLen)))

\* Variant of Existing: the read filters on the name as well as the email.
Existing_ByNameAndEmail(req) ==
    get_documents(userauth, [email |-> req.email, name |-> req.name])

\* existing = get_documents("userauth", {"email": payload.email})
Existing(req) == get_documents(userauth, [email |-> req.email])

\* First store call: the existence read, and the conflict it may raise.
signup(p) ==
    \E req \in SignUpRequests :
        /\ Take(p, "signup", req)
        /\ LET existing == Existing(req)
           IN  IF existing # <<>>
               THEN Finish(p, HTTPException(400, "Email already registered"))
               ELSE /\ Len(userauth)
                         + Cardinality({q \in Procs : pc[q] = "signup_create"})
                         < MaxUsers
                    /\ pc' = [pc EXCEPT ![p] = "signup_create"]
                    /\ UNCHANGED response
        /\ UNCHANGED <<config, store, count, pl>>

\* Variant of signup_create: the email is read again before the insert, and
\* the signup refused when a record holds it by then.
signup_create_Rechecked(p) ==
    /\ pc[p] = "signup_create"
    /\ LET user == SignupUser(payload[p])
           new_id == inserted_id(userauth)
       IN  IF Existing(payload[p]) # <<>>
           THEN /\ UNCHANGED userauth
                /\ Finish(p, HTTPException(400, "Email already registered"))
           ELSE \/ /\ db
                   /\ userauth' = create_document(userauth, user)
                   /\ Finish(p, SignupResponse(user, new_id))
                \/ /\ UNCHANGED userauth
                   /\ Finish(p, ServerError)
    /\ UNCHANGED <<config, blogpost, contactmessage, pricingplan,
                   op, payload, count, pl>>

\* Second store call: the insert, which the store may fail.
signup_create(p) ==
    /\ pc[p] = "signup_create"
    /\ LET user == SignupUser(payload[p])
           new_id == inserted_id(userauth)
       IN  \/ /\ db
              /\ userauth' = create_document(userauth, user)
              /\ Finish(p, SignupResponse(user, new_id))
           \/ /\ UNCHANGED userauth
              /\ Finish(p, ServerError)
    /\ UNCHANGED <<config, blogpost, contactmessage, pricingplan,
                   op, payload, count, pl>>

(***************************************************************************)
(* POST /api/auth/signin                                                    *)
(***************************************************************************)
\* Variant of SigninResponse: the token is derived from the email and the
\* name instead of the email and the identifier.
SigninResponse_TokenFromName(req, users) ==
    IF users = <<>>
    THEN HTTPException(404, "User not found")
    ELSE LET user == users[1]
         IN  IF user.password_hash # hash_password(req.password)
             THEN HTTPException(401, "Invalid credentials")
             ELSE Ok(AuthResponse(
                      IdStr(user._id), user.name, user.email, user.company,
                      Prefix(hash_password(user.email \o user.name), TokenLen)))

\* Variant of SigninResponse: the password is not compared.
SigninResponse_NoPasswordCheck(req, users) ==
    IF users = <<>>
    THEN HTTPException(404, "User not found")
    ELSE LET user == users[1]
         IN  Ok(AuthResponse(
                 IdStr(user._id), user.name, user.email, user.company,
                 Prefix(hash_password(user.email \o IdStr(user._id)), TokenLen)))

SigninResponse(req, users) ==
    IF users = <<>>
    THEN HTTPException(404, "User not found")
    ELSE LET user == users[1]
         IN  IF user.password_hash # hash_password(req.password)
             THEN HTTPException(401, "Invalid credentials")
             ELSE Ok(AuthResponse(
                      IdStr(user._id), user.name, user.email, user.company,
                      Prefix(hash_password(user.email \o IdStr(user._id)),
                             TokenLen)))

\* Variant of signin: a successful signin stamps the record it read.
signin_Stamping(p) ==
    \E req \in SignInRequests :
        /\ Take(p, "signin", req)
        /\ LET users == get_documents(userauth, [email |-> req.email])
               r == SigninResponse(req, users)
           IN  /\ Finish(p, r)
               /\ userauth' =
                      IF r.status = 200
                      THEN [i \in 1..Len(userauth) |->
                               IF userauth[i]._id = users[1]._id
                               THEN [userauth[i] EXCEPT !.role = "seen"]
                               ELSE userauth[i]]
                      ELSE userauth
        /\ UNCHANGED <<config, blogpost, contactmessage, pricingplan, count, pl>>

signin(p) ==
    \E req \in SignInRequests :
        /\ Take(p, "signin", req)
        /\ Finish(p, SigninResponse(
                         req, get_documents(userauth, [email |-> req.email])))
        /\ UNCHANGED <<config, store, count, pl>>

(***************************************************************************)
(* POST /api/blog, GET /api/blog                                            *)
(***************************************************************************)
\* str.lower() of one character.
Lower(c) == IF Code(c) > 40 THEN SubSeq(Chars, Code(c) - 30, Code(c) - 30) ELSE c

\* post.title.lower().replace(" ", "-")
RECURSIVE Slugify(_)
Slugify(title) ==
    IF title = "" THEN ""
    ELSE LET c == Lower(SubSeq(title, 1, 1))
         IN  (IF c = " " THEN "-" ELSE c) \o Slugify(SubSeq(title, 2, Len(title)))

create_blog(p) ==
    \E post \in BlogCreates, now \in Times :
        /\ Take(p, "create_blog", post)
        /\ Len(blogpost) < MaxBlogs
        /\ LET slug == Slugify(post.title)
               blog == Blogpost(post, slug, now)
               new_id == inserted_id(blogpost)
           IN  \/ /\ db
                  /\ blogpost' = create_document(blogpost, blog)
                  /\ Finish(p, Ok([id |-> new_id, slug |-> slug]))
               \/ /\ UNCHANGED blogpost
                  /\ Finish(p, ServerError)
        /\ UNCHANGED <<config, userauth, contactmessage, pricingplan, count, pl>>

\* Variant of ListedPosts: the limit is not handed to the store.
ListedPosts_Unlimited(limit) ==
    get_documents(blogpost, [published |-> TRUE])

\* The posts list_blogs reads for a limit.
ListedPosts(limit) ==
    get_documents_limit(blogpost, [published |-> TRUE], limit)

list_blogs(p) ==
    \E limit \in Limits :
        /\ Take(p, "list_blogs", [limit |-> limit])
        /\ Finish(p, Ok(Serialize(ListedPosts(limit))))
        /\ UNCHANGED <<config, store, count, pl>>

(***************************************************************************)
(* POST /api/contact                                                        *)
(***************************************************************************)
submit_contact(p) ==
    \E req \in ContactRequests :
        /\ Take(p, "submit_contact", req)
        /\ Len(contactmessage) < MaxContacts
        /\ LET doc == Contactmessage(req)
               doc_id == inserted_id(contactmessage)
           IN  \/ /\ db
                  /\ contactmessage' = create_document(contactmessage, doc)
                  /\ Finish(p, Ok([status |-> "ok", id |-> doc_id]))
               \/ /\ UNCHANGED contactmessage
                  /\ Finish(p, ServerError)
        /\ UNCHANGED <<config, userauth, blogpost, pricingplan, count, pl>>


(***************************************************************************)
(* GET /api/pricing                                                         *)
(***************************************************************************)
\* count = db.pricingplan.count_documents({}) if db else 0
CountPlans == IF db THEN Len(pricingplan) ELSE 0

\* Variant of Seeds: the count is not consulted.
Seeds_Always(c) == db

\* Variant of Seeds: a collection short of the three plans is seeded again.
Seeds_Incomplete(c) == c < 3 /\ db

\* if count == 0 and db: whether the call seeds.
Seeds(c) == c = 0 /\ db

\* First store call: the count, and the decision to seed.
get_pricing(p) ==
    /\ Take(p, "get_pricing", NoPayload)
    /\ count' = [count EXCEPT ![p] = CountPlans]
    /\ pl' = [pl EXCEPT ![p] = 0]
    /\ pc' = [pc EXCEPT ![p] =
                  IF Seeds(CountPlans) THEN "pricing_seed" ELSE "pricing_read"]
    /\ UNCHANGED <<config, store, response>>

\* Variant of get_pricing_seed: a plan whose name the collection holds is
\* skipped instead of inserted.
get_pricing_seed_Upsert(p) ==
    /\ pc[p] = "pricing_seed"
    /\ \/ /\ pricingplan' =
                 IF \E i \in 1..Len(pricingplan) :
                        pricingplan[i].name = plans[pl[p] + 1].name
                 THEN pricingplan
                 ELSE create_document(pricingplan, plans[pl[p] + 1])
          /\ pl' = [pl EXCEPT ![p] = pl[p] + 1]
          /\ pc' = [pc EXCEPT ![p] =
                        IF pl[p] + 1 = Len(plans)
                        THEN "pricing_read" ELSE "pricing_seed"]
          /\ UNCHANGED response
       \/ /\ UNCHANGED <<pricingplan, pl>>
          /\ Finish(p, ServerError)
    /\ UNCHANGED <<config, userauth, blogpost, contactmessage, op, payload, count>>

\* One turn of the loop "for pl in plans: create_document(...)".
get_pricing_seed(p) ==
    /\ pc[p] = "pricing_seed"
    /\ \/ /\ pricingplan' = create_document(pricingplan, plans[pl[p] + 1])
          /\ pl' = [pl EXCEPT ![p] = pl[p] + 1]
          /\ pc' = [pc EXCEPT ![p] =
                        IF pl[p] + 1 = Len(plans)
                        THEN "pricing_read" ELSE "pricing_seed"]
          /\ UNCHANGED response
       \/ /\ UNCHANGED <<pricingplan, pl>>
          /\ Finish(p, ServerError)
    /\ UNCHANGED <<config, userauth, blogpost, contactmessage, op, payload, count>>

\* Last store call: the read that is returned.
get_pricing_read(p) ==
    /\ pc[p] = "pricing_read"
    /\ Finish(p, Ok(Serialize(get_documents(pricingplan, NoFilter))))
    /\ UNCHANGED <<config, store, op, payload, count, pl>>

(***************************************************************************)
(* GET /test.  The pictographs of the status strings are written as the     *)
(* ASCII tags [ok], [x] and [!].                                            *)
(***************************************************************************)
\* db.list_collection_names(): the collections that hold a record.
list_collection_names ==
    SelectSeq(<<"userauth", "blogpost", "contactmessage", "pricingplan">>,
              LAMBDA n : CASE n = "userauth" -> userauth # <<>>
                           [] n = "blogpost" -> blogpost # <<>>
                           [] n = "contactmessage" -> contactmessage # <<>>
                           [] OTHER -> pricingplan # <<>>)

\* The payload for a handle that is present (has) or absent, and a listing
\* that succeeds (err = None) or raises an exception whose str() is err.
DiagnosticResponse(has, err) ==
    [ backend |-> "[ok] Running",
      database |->
          IF ~has THEN "[!]  Available but not initialized"
          ELSE IF err = None THEN "[ok] Connected & Working"
          ELSE "[!]  Connected but Error: " \o Prefix(err, 50),
      database_url |->
          IF "DATABASE_URL" \in environ THEN "[ok] Set" ELSE "[x] Not Set",
      database_name |->
          IF "DATABASE_NAME" \in environ THEN "[ok] Set" ELSE "[x] Not Set",
      connection_status |-> IF has THEN "Connected" ELSE "Not Connected",
      collections |->
          IF has /\ err = None THEN Prefix(list_collection_names, 10) ELSE <<>> ]

\* Variant of test_database: a failed listing is not caught.
test_database_Uncaught(p) ==
    \E err \in (IF db THEN {None} \cup ListingErrors ELSE {None}) :
        /\ Take(p, "test_database", [listing |-> err])
        /\ Finish(p, IF err = None THEN Ok(DiagnosticResponse(db, err))
                     ELSE ServerError)
        /\ UNCHANGED <<config, store, count, pl>>

test_database(p) ==
    \E err \in (IF db THEN {None} \cup ListingErrors ELSE {None}) :
        /\ Take(p, "test_database", [listing |-> err])
        /\ Finish(p, Ok(DiagnosticResponse(db, err)))
        /\ UNCHANGED <<config, store, count, pl>>

(***************************************************************************)
(* The response is delivered; the worker is free for the next request.      *)
(***************************************************************************)
Return(p) ==
    /\ pc[p] = "done"
    /\ pc' = [pc EXCEPT ![p] = "idle"]
    /\ op' = [op EXCEPT ![p] = "none"]
    /\ payload' = [payload EXCEPT ![p] = NoPayload]
    /\ count' = [count EXCEPT ![p] = 0]
    /\ pl' = [pl EXCEPT ![p] = 0]
    /\ response' = [response EXCEPT ![p] = NoResponse]
    /\ UNCHANGED <<config, store>>

(***************************************************************************)
(* Specifications.                                                          *)
(*   Spec         every handler, the workers interleaving at every store    *)
(*                call; a request is admitted while the store holds fewer   *)
(*                than MaxLoad records.                                     *)
(*   AuthSpec     signup and signin alone, interleaving.                    *)
(*   PricingSpec  get_pricing alone, interleaving.                          *)
(*   PricingSeqSpec  get_pricing alone, a request being taken only while no *)
(*                other request is in flight.                               *)
(*   ContentSpec  the blog, contact and diagnostic handlers, interleaving.  *)
(* The handlers of one specification read and write no collection of        *)
(* another's, so the narrower specifications lose no behaviour of theirs.   *)
(***************************************************************************)
InFlight(p) == pc[p] \notin {"idle", "done"}

Quiet(p) == \A q \in Procs \ {p} : ~InFlight(q)

Load ==
    Len(userauth) + Len(blogpost) + Len(contactmessage) + Len(pricingplan)

Admit == Load < MaxLoad

Next ==
    \E p \in Procs :
        \/ Admit /\ signup(p)
        \/ signup_create(p)
        \/ Admit /\ signin(p)
        \/ Admit /\ create_blog(p)
        \/ Admit /\ list_blogs(p)
        \/ Admit /\ submit_contact(p)
        \/ Admit /\ get_pricing(p)
        \/ get_pricing_seed(p)
        \/ get_pricing_read(p)
        \/ Admit /\ test_database(p)
        \/ Return(p)

Spec == Init /\ [][Next]_vars

AuthNext ==
    \E p \in Procs :
        \/ signup(p)
        \/ signup_create(p)
        \/ signin(p)
        \/ Return(p)

AuthSpec == Init /\ [][AuthNext]_vars

PricingNext ==
    \E p \in Procs :
        \/ get_pricing(p)
        \/ get_pricing_seed(p)
        \/ get_pricing_read(p)
        \/ Return(p)

PricingSpec == Init /\ [][PricingNext]_vars

PricingSeqNext ==
    \E p \in Procs :
        \/ Quiet(p) /\ get_pricing(p)
        \/ get_pricing_seed(p)
        \/ get_pricing_read(p)
        \/ Return(p)

PricingSeqSpec == Init /\ [][PricingSeqNext]_vars

ContentNext ==
    \E p \in Procs :
        \/ create_blog(p)
        \/ list_blogs(p)
        \/ submit_contact(p)
        \/ test_database(p)
        \/ Return(p)

ContentSpec == Init /\ [][ContentNext]_vars


(***************************************************************************)
(* Properties.                                                              *)
(***************************************************************************)
\* Worker p has answered a request of operation o with the given status.
Answered(p, o, status) ==
    pc[p] = "done" /\ op[p] = o /\ response[p].status = status

\* The step taken is worker p's taking (and, for a handler of one store
\* call, serving) a request of operation o.
Takes(p, o) == pc[p] = "idle" /\ op'[p] = o

\* The positions of the userauth records with an email.
WithEmail(email) == {i \in 1..Len(userauth) : userauth[i].email = email}

\* coll' keeps every record of coll, at its place and unchanged.
Kept(coll, collNext) ==
    /\ Len(collNext) >= Len(coll)
    /\ SubSeq(collNext, 1, Len(coll)) = coll

(***************************************************************************)
(* C1.  A signup whose email is that of a persisted UserAuth record is      *)
(* answered 400, whatever its other fields, and adds no record.             *)
(***************************************************************************)
C1_SignupConflict ==
    [][\A p \in Procs :
          (Takes(p, "signup") /\ WithEmail(payload'[p].email) # {})
              => /\ pc'[p] = "done"
                 /\ response'[p] = HTTPException(400, "Email already registered")
                 /\ userauth' = userauth]_vars

\* A signup was answered 400 though its name and password differ from the
\* stored record's.
C1_Witness ==
    \E p \in Procs :
        /\ Answered(p, "signup", 400)
        /\ \E i \in WithEmail(payload[p].email) :
               /\ userauth[i].name # payload[p].name
               /\ userauth[i].password_hash # hash_password(payload[p].password)
               /\ userauth[i].company # payload[p].company
        /\ Len(userauth) = 1

(***************************************************************************)
(* C2.  The token of a successful signup is the digest of email + user_id   *)
(* cut to 32 characters, and a later successful signin with that email and  *)
(* password returns the signup's user_id and token.                         *)
(***************************************************************************)
\* The token of every answered signup.
SignupTokenDerived ==
    \A p \in Procs :
        Answered(p, "signup", 200) =>
            /\ response[p].body.token =
                   SubSeq(hash_password(payload[p].email \o response[p].body.user_id),
                          1, TokenLen)
            /\ Len(response[p].body.token) = TokenLen
            /\ response[p].body.email = payload[p].email

\* Worker q's signin, taken after worker p's signup was answered, succeeds
\* with p's email and password.
SigninAfterSignup(p, q) ==
    /\ Answered(p, "signup", 200)
    /\ Takes(q, "signin")
    /\ payload'[q].email = payload[p].email
    /\ payload'[q].password = payload[p].password
    /\ response'[q].status = 200

SameIdentity(p, q) ==
    /\ response'[q].body.user_id = response[p].body.user_id
    /\ response'[q].body.token = response[p].body.token

\* The claim as stated: of every successful signup.
C2_AsStated ==
    /\ []SignupTokenDerived
    /\ [][\A p, q \in Procs : SigninAfterSignup(p, q) => SameIdentity(p, q)]_vars

\* The claim as amended: while the signup's record is the only one that
\* holds its email.
C2_TokenStable ==
    /\ []SignupTokenDerived
    /\ [][\A p, q \in Procs :
             (SigninAfterSignup(p, q)
                 /\ Cardinality(WithEmail(payload[p].email)) = 1)
                 => SameIdentity(p, q)]_vars

\* A signin answered with the user_id and token of an answered signup.
C2_Witness ==
    \E p, q \in Procs :
        /\ Answered(p, "signup", 200)
        /\ Answered(q, "signin", 200)
        /\ payload[q].email = payload[p].email
        /\ payload[q].password = payload[p].password
        /\ Cardinality(WithEmail(payload[p].email)) = 1
        /\ response[q].body.user_id = response[p].body.user_id
        /\ response[q].body.token = response[p].body.token
        /\ Len(userauth) = 2

(***************************************************************************)
(* C3.  A signin with an email no record holds is answered 404; one whose   *)
(* password digest differs from the password_hash of the record signin      *)
(* reads (the first with that email) is answered 401; neither returns a     *)
(* token nor changes a record.                                              *)
(***************************************************************************)
C3_SigninRefused ==
    [][\A p \in Procs :
          Takes(p, "signin") =>
              LET req == payload'[p]
                  found == WithEmail(req.email)
                  first == CHOOSE i \in found : \A j \in found : i <= j
              IN  /\ found = {} =>
                         response'[p] = HTTPException(404, "User not found")
                  /\ (found # {}
                        /\ userauth[first].password_hash # hash_password(req.password))
                         => response'[p] = HTTPException(401, "Invalid credentials")
                  /\ response'[p].status = 200 =>
                         /\ found # {}
                         /\ userauth[first].password_hash = hash_password(req.password)
                  /\ pc'[p] = "done"
                  /\ UNCHANGED store]_vars

\* One signin was answered 404 and another 401.
C3_Witness ==
    \E p, q \in Procs :
        /\ Answered(p, "signin", 404)
        /\ Answered(q, "signin", 401)
        /\ WithEmail(payload[p].email) = {}
        /\ WithEmail(payload[q].email) # {}

(***************************************************************************)
(* C6.  Two signups of one unused email that both ran their existence read  *)
(* before either inserted are both answered 200, and userauth then holds    *)
(* two records with that email.                                             *)
(***************************************************************************)
\* Worker q has passed the existence read of a signup of the email worker p
\* signs up, and has not been refused since.
RacesWith(p, q) ==
    /\ p # q
    /\ op[q] = "signup"
    /\ payload[q].email = payload[p].email
    /\ pc[q] = "signup_create" \/ Answered(q, "signup", 200)

C6_DuplicateEmails ==
    /\ [](\A p, q \in Procs :
             (Answered(p, "signup", 200) /\ RacesWith(p, q)
                  /\ Answered(q, "signup", 200))
                 => /\ response[p].body.user_id # response[q].body.user_id
                    /\ Cardinality(WithEmail(payload[p].email)) >= 2)
    /\ [][\A p, q \in Procs :
             (pc[p] = "signup_create" /\ RacesWith(p, q) /\ pc'[p] = "done")
                 => /\ response'[p].status \in {200, 500}
                    /\ response'[p].status = 200 =>
                           /\ Len(userauth') = Len(userauth) + 1
                           /\ userauth'[Len(userauth')].email = payload[p].email]_vars

\* Both racing signups were answered 200 and two records hold the email.
C6_Witness ==
    \E p, q \in Procs :
        /\ p # q
        /\ Answered(p, "signup", 200)
        /\ Answered(q, "signup", 200)
        /\ payload[p].email = payload[q].email
        /\ Cardinality(WithEmail(payload[p].email)) = 2


(***************************************************************************)
(* C4.  With a store and no two requests overlapping, a pricing call that   *)
(* counts no plan and returns has inserted Starter, Pro and Enterprise,     *)
(* Pro alone most_popular; a call that counts a plan inserts nothing; the   *)
(* collection never exceeds the three plans.                                *)
(***************************************************************************)
PlanNames == [i \in 1..Len(pricingplan) |-> pricingplan[i].name]

MostPopular == {pricingplan[i].name : i \in {j \in 1..Len(pricingplan) :
                                                  pricingplan[j].most_popular}}

Named(name) == {i \in 1..Len(pricingplan) : pricingplan[i].name = name}

\* Worker p counted an empty collection, seeded and returned.
Seeded(p) == db /\ count[p] = 0 /\ Answered(p, "get_pricing", 200)

C7_DoubleSeed ==
    \A p, q \in Procs :
        (p # q /\ Seeded(p) /\ Seeded(q)) =>
            /\ Len(pricingplan) >= 6
            /\ \A name \in {"Starter", "Pro", "Enterprise"} :
                   Cardinality(Named(name)) >= 2

\* Both calls seeded: six plans, each name twice.
C7_Witness ==
    \E p, q \in Procs :
        /\ p # q /\ Seeded(p) /\ Seeded(q)
        /\ Len(pricingplan) = 6
        /\ \A name \in {"Starter", "Pro", "Enterprise"} :
               Cardinality(Named(name)) = 2
        /\ Len(response[p].body) = 6 \/ Len(response[q].body) = 6

(***************************************************************************)
(* C10.  A pricing call that fails after inserting k of the three plans,    *)
(* 1 <= k < 3, is answered 500 with its k plans in place; every later call  *)
(* counts a plan and inserts nothing; the collection never reaches the      *)
(* three-plan seed.                                                         *)
(***************************************************************************)
Interrupted(p) == Answered(p, "get_pricing", 500) /\ pl[p] \in 1..2

FullSeed(coll) ==
    \A name \in {"Starter", "Pro", "Enterprise"} :
        \E i \in 1..Len(coll) : coll[i].name = name

\* The failed call is answered 500 short of the three plans, its own left
\* in place.
FailureLeavesPlans ==
    \A p \in Procs :
        Answered(p, "get_pricing", 500) =>
            /\ pl[p] < 3
            /\ Len(pricingplan) >= pl[p]
            /\ response[p] = ServerError

\* A call taken in this step counts a plan and goes straight to its read.
LaterCallsInsertNothing ==
    \A q \in Procs :
        Takes(q, "get_pricing") => (count'[q] > 0 /\ pc'[q] = "pricing_read")

\* The claim as stated: after any interrupted seed.
C10_AsStated ==
    /\ []FailureLeavesPlans
    /\ [][(\E p \in Procs : Interrupted(p)) => LaterCallsInsertNothing]_vars
    /\ [][((\E p \in Procs : Interrupted(p)) /\ ~FullSeed(pricingplan))
              => ~FullSeed(pricingplan')]_vars

\* One or two plans are stored and no call is in its seeding loop.
Stuck ==
    /\ Len(pricingplan) \in 1..2
    /\ \A q \in Procs : pc[q] # "pricing_seed"

\* The claim as amended: of a collection left with one or two plans while
\* no other call is seeding.
C10_NeverCompleted ==
    /\ []FailureLeavesPlans
    /\ [][Stuck => /\ LaterCallsInsertNothing
                   /\ Stuck'
                   /\ pricingplan' = pricingplan]_vars

\* A call failed after one or two plans, and a later call returned what
\* was left without inserting.
C10_Witness ==
    \E p, q \in Procs :
        /\ Interrupted(p)
        /\ Stuck
        /\ Len(pricingplan) = pl[p]
        /\ Answered(q, "get_pricing", 200)
        /\ count[q] = pl[p] /\ pl[q] = 0
        /\ Len(response[q].body) = pl[p]


(***************************************************************************)
(* C5.  list_blogs returns only posts whose published is TRUE, and no more  *)
(* of them than limit.                                                      *)
(***************************************************************************)
OnlyPublished(p) ==
    \A i \in 1..Len(response[p].body) :
        /\ response[p].body[i].published = TRUE
        /\ \E j \in 1..Len(blogpost) :
               /\ blogpost[j].published
               /\ response[p].body[i] = RenameId(blogpost[j])

\* The claim as stated: of every integer limit.
C5_AsStated ==
    \A p \in Procs :
        Answered(p, "list_blogs", 200) =>
            /\ OnlyPublished(p)
            /\ Len(response[p].body) <= payload[p].limit

\* The claim as amended: of every limit that is not negative.
C5_ListBounded ==
    \A p \in Procs :
        Answered(p, "list_blogs", 200) =>
            /\ OnlyPublished(p)
            /\ payload[p].limit >= 0 =>
                   Len(response[p].body) <= payload[p].limit

\* A listing cut to its limit, short of the published posts, while the
\* store also holds an unpublished one.
C5_Witness ==
    \E p \in Procs :
        /\ Answered(p, "list_blogs", 200)
        /\ payload[p].limit = 1
        /\ Len(response[p].body) = 1
        /\ Cardinality({j \in 1..Len(blogpost) : blogpost[j].published}) = 2
        /\ \E j \in 1..Len(blogpost) : ~blogpost[j].published

(***************************************************************************)
(* C8.  No step removes or alters a stored record, and signin, list_blogs   *)
(* and test_database leave every collection as it is.                       *)
(***************************************************************************)
C8_RecordsKept ==
    [][/\ Kept(userauth, userauth')
       /\ Kept(blogpost, blogpost')
       /\ Kept(contactmessage, contactmessage')
       /\ Kept(pricingplan, pricingplan')
       /\ \A p \in Procs :
              (Takes(p, "signin") \/ Takes(p, "list_blogs")
                   \/ Takes(p, "test_database"))
                  => UNCHANGED store]_vars

\* A signin has succeeded, a listing has returned a post, and the records
\* they read are stored as before.
C8_Witness ==
    \E p, q \in Procs :
        /\ Answered(p, "signin", 200)
        /\ Answered(q, "list_blogs", 200)
        /\ Len(response[q].body) = 1
        /\ \E i \in 1..Len(userauth) :
               /\ IdStr(userauth[i]._id) = response[p].body.user_id
               /\ userauth[i].role = "user"

(***************************************************************************)
(* C9.  test_database always answers 200, whether the handle is absent,     *)
(* the listing succeeds or the listing fails, and its database string       *)
(* tells the three apart.                                                   *)
(***************************************************************************)
Condition(has, err) ==
    IF ~has THEN "absent" ELSE IF err = None THEN "working" ELSE "failing"

C9_DiagnosticNeverRaises ==
    \A p \in Procs :
        (pc[p] = "done" /\ op[p] = "test_database") =>
            /\ response[p].status = 200
            /\ response[p].body.backend = "[ok] Running"
            /\ \A has \in BOOLEAN, err \in {None} \cup ListingErrors :
                   Condition(has, err) # Condition(db, payload[p].listing)
                       => DiagnosticResponse(has, err).database
                              # response[p].body.database
            /\ Condition(db, payload[p].listing) = "working"
                   <=> response[p].body.database = "[ok] Connected & Working"

\* A listing that failed with a message longer than fifty characters was
\* answered, the message cut.
C9_Witness ==
    \E p, q \in Procs :
        /\ Answered(p, "test_database", 200)
        /\ payload[p].listing # None
        /\ Len(payload[p].listing) > 50
        /\ Len(response[p].body.database) = Len("[!]  Connected but Error: ") + 50
        /\ Answered(q, "test_database", 200)
        /\ payload[q].listing = None
        /\ response[q].body.database = "[ok] Connected & Working"

=============================================================================
